---- MODULE Spec2Model ----
(***************************************************************************)
(* Model of src/main.py: the inactive-service configuration detector.      *)
(*                                                                         *)
(* Strings that the program transforms (service names, lines of the        *)
(* service list) are sequences of one-character strings, so that           *)
(* str.strip() is computed and not assumed.  A path is the pair            *)
(* <<root, extension>>.  A Python value that may be None is a sequence of  *)
(* length 0 (None) or 1 (the value).                                       *)
(***************************************************************************)
EXTENDS Integers, Sequences, FiniteSets, TLC

\* ------------------------------------------------------------------ bounds
MaxFiles == 2   \* config files on the command line
MaxKeys  == 2   \* entries of one parsed configuration mapping
MaxLines == 1   \* lines of the service-list file

\* ------------------------------------------------------- Python primitives
None == << >>
Some(v) == << v >>

\* bool(s) for a str: the empty string is falsy.
StrTruthy(s) == s # << >>

\* `if args.x:` for an optional string argument: None and "" are both falsy.
OptTruthy(o) == o # None /\ StrTruthy(o[1])

Whitespace == {" ", "\t", "\n"}

RECURSIVE LStrip(_)
LStrip(s) ==
    IF s = << >> THEN << >>
    ELSE IF Head(s) \in Whitespace THEN LStrip(Tail(s))
    ELSE s

RECURSIVE RStrip(_)
RStrip(s) ==
    IF s = << >> THEN << >>
    ELSE IF s[Len(s)] \in Whitespace THEN RStrip(SubSeq(s, 1, Len(s) - 1))
    ELSE s

\* str.strip()
Strip(s) == LStrip(RStrip(s))

Range(f) == {f[i] : i \in DOMAIN f}

\* Sequences over S of length at most n.
SeqsUpTo(S, n) == UNION {[1..k -> S] : k \in 0..n}

\* ----------------------------------------------------------- typed values
\* A parsed YAML/JSON value: its Python type and its repr.
BoolTrue  == [type |-> "bool", repr |-> "True"]
BoolFalse == [type |-> "bool", repr |-> "False"]
StrTrue   == [type |-> "str", repr |-> "'true'"]
StrYes    == [type |-> "str", repr |-> "'yes'"]
IntOne    == [type |-> "int", repr |-> "1"]
NullValue == [type |-> "NoneType", repr |-> "None"]
Nested    == [type |-> "dict", repr |-> "{'status': 'enabled'}"]

\* isinstance(v, bool)
IsInstanceBool(v) == v.type = "bool"

\* bool(v): Python truthiness of a parsed value.
Truthy(v) ==
    CASE v.type = "bool" -> v.repr = "True"
      [] v.type = "str" -> v.repr # "''"
      [] v.type = "int" -> v.repr # "0"
      [] v.type = "NoneType" -> FALSE
      [] v.type = "dict" -> v.repr # "{}"
      [] OTHER -> FALSE

\* A detector that tests truthiness alone.
IsEnabledTruthyOnly(v) == Truthy(v)

\* main.py:103  isinstance(enabled, bool) and enabled
IsEnabled(v) == IsInstanceBool(v) /\ Truthy(v)

\* ------------------------------------------------------------ the detector
REASON == "Service is enabled in configuration but not listed as active."

\* A detector that takes "no list" to mean "nothing is active".
is_service_active_inverted(service_name, active_services) ==
    IF active_services = None THEN FALSE
    ELSE service_name \in active_services[1]

\* main.py:26-40
is_service_active(service_name, active_services) ==
    IF active_services = None THEN TRUE
    ELSE service_name \in active_services[1]

\* main.py:105-109
Finding(config_file, service) ==
    [file |-> config_file, service |-> service, reason |-> REASON]

\* main.py:102-109: the loop over data.items(), in insertion order.
RECURSIVE ScanItems(_, _, _)
ScanItems(items, config_file, active_services) ==
    IF items = << >> THEN << >>
    ELSE LET it == Head(items)
             rest == ScanItems(Tail(items), config_file, active_services)
         IN IF IsEnabled(it.value) /\ ~is_service_active(it.key, active_services)
            THEN << Finding(config_file, it.key) >> \o rest
            ELSE rest

\* main.py:80  os.path.splitext(config_file)[1].lower()
Lower(ext) ==
    CASE ext = ".YAML" -> ".yaml"
      [] ext = ".YML" -> ".yml"
      [] ext = ".JSON" -> ".json"
      [] OTHER -> ext
FileExt(config_file) == Lower(config_file[2])

\* main.py:83,89: the extensions a parser exists for.
SupportedExt(ext) == ext \in {".yaml", ".yml", ".json"}

\* What open() and the parser meet for one config file.
\*   missing      open raises FileNotFoundError
\*   open_error   open raises another exception (PermissionError, ...)
\*   read_error   the load raises an exception that is not the parser's
\*                error class (UnicodeDecodeError, RecursionError, ...)
\*   parse_error  yaml.YAMLError / json.JSONDecodeError
\*   ok           the document parses to `data`
NoData == [kind |-> "none", items |-> << >>]

\* An analysis whose handler for unexpected exceptions is missing.
analyze_config_file_uncaught(config_file, active_services, file) ==
    IF file.status = "missing"
        THEN [findings |-> << >>, log |-> "error: not found", raised |-> FALSE]
    ELSE IF file.status = "open_error"
        THEN [findings |-> << >>, log |-> "none", raised |-> TRUE]
    ELSE IF ~SupportedExt(FileExt(config_file))
        THEN [findings |-> << >>, log |-> "warning: unsupported", raised |-> FALSE]
    ELSE IF file.status = "parse_error"
        THEN [findings |-> << >>, log |-> "error: parsing", raised |-> FALSE]
    ELSE IF file.status = "read_error"
        THEN [findings |-> << >>, log |-> "none", raised |-> TRUE]
    ELSE IF file.data.kind = "dict"
        THEN [findings |-> ScanItems(file.data.items, config_file, active_services),
              log |-> "none", raised |-> FALSE]
    ELSE [findings |-> << >>, log |-> "none", raised |-> FALSE]

\* main.py:67-115.  Returns the list, what was logged, and whether an
\* exception left the function (none does: lines 110-113 catch them all,
\* and inactive_services is still empty wherever one can be raised).
analyze_config_file(config_file, active_services, file) ==
    IF file.status = "missing"
        THEN [findings |-> << >>, log |-> "error: not found", raised |-> FALSE]
    ELSE IF file.status = "open_error"
        THEN [findings |-> << >>, log |-> "error: analyzing", raised |-> FALSE]
    ELSE IF ~SupportedExt(FileExt(config_file))
        THEN [findings |-> << >>, log |-> "warning: unsupported", raised |-> FALSE]
    ELSE IF file.status = "parse_error"
        THEN [findings |-> << >>, log |-> "error: parsing", raised |-> FALSE]
    ELSE IF file.status = "read_error"
        THEN [findings |-> << >>, log |-> "error: analyzing", raised |-> FALSE]
    ELSE IF file.data.kind = "dict"
        THEN [findings |-> ScanItems(file.data.items, config_file, active_services),
              log |-> "none", raised |-> FALSE]
    ELSE [findings |-> << >>, log |-> "none", raised |-> FALSE]

\* main.py:42-64
load_active_services(source) ==
    IF source.status = "ok"
    THEN LET services ==
                 {Strip(l) : l \in {x \in Range(source.lines) : StrTruthy(Strip(x))}}
         IN IF services = {} THEN None ELSE Some(services)
    ELSE None

\* ------------------------------------------------------------- formatting
NO_FINDINGS == "No inactive service configurations found."
TEXT_HEADER == "Inactive Service Configurations Found:"

\* An output line is the sequence of the pieces written into it.
\* main.py:151-155
RECURSIVE TextBlocks(_)
TextBlocks(findings) ==
    IF findings = << >> THEN << >>
    ELSE LET f == Head(findings)
         IN << << "  File: " >> \o f.file,
               << "  Service: " >> \o f.service,
               << "  Reason: ", f.reason >>,
               << >> >> \o TextBlocks(Tail(findings))

\* A formatter that writes nothing when there is nothing to report.
FormatTextOmitEmpty(findings) ==
    IF findings # << >> THEN << << TEXT_HEADER >> >> \o TextBlocks(findings)
    ELSE << >>

\* main.py:148-157
FormatText(findings) ==
    IF findings # << >> THEN << << TEXT_HEADER >> >> \o TextBlocks(findings)
    ELSE << << NO_FINDINGS >> >>

\* json.dumps of one finding: the keys in the dict's insertion order.
RECURSIVE JsonRecords(_)
JsonRecords(findings) ==
    IF findings = << >> THEN << >>
    ELSE LET f == Head(findings)
         IN << << "{" >>,
               << "\"file\": " >> \o f.file,
               << "\"service\": " >> \o f.service,
               << "\"reason\": ", f.reason >>,
               << "}" >> >> \o JsonRecords(Tail(findings))

\* main.py:146  json.dumps(all_inactive_services, indent=4)
FormatJson(findings) ==
    IF findings = << >> THEN << << "[]" >> >>
    ELSE << << "[" >> >> \o JsonRecords(findings) \o << << "]" >> >>

\* main.py:145-157
FormatOutput(format, findings) ==
    IF format = "json" THEN FormatJson(findings) ELSE FormatText(findings)

\* ------------------------------------------------------------ main's steps
\* main.py:19,123: nargs='+' makes parse_args() end the process with status 2
\* when no config file is given; main.py:129-132 is the check after it.
ParseOutcome(cmdline) ==
    IF Len(cmdline.config_files) < 1
        THEN [pc |-> "exited", exit_code |-> Some(2), printed |-> "usage"]
    ELSE IF cmdline.config_files = << >>
        THEN [pc |-> "exited", exit_code |-> Some(1), printed |-> "help"]
    ELSE [pc |-> "load", exit_code |-> None, printed |-> "none"]

\* A main() that goes on after a failed load.
LoadFailureIgnored(loaded, service_list) == FALSE

\* main.py:137  active_services is None and args.service_list
LoadFailed(loaded, service_list) == loaded = None /\ OptTruthy(service_list)

\* An aggregation that puts the newest file's findings first.
ExtendFront(list, more) == more \o list

\* main.py:143  all_inactive_services.extend(...)
Extend(list, more) == list \o more

\* An exit that reports success whatever was found.
FinalExitCodeAlwaysZero(findings) == 0

\* main.py:170-173
FinalExitCode(findings) == IF findings # << >> THEN 1 ELSE 0

\* -------------------------------------------------------------- input sets
ConfigPaths == { << "a", ".yaml" >>, << "b", ".JSON" >>, << "c", ".ini" >> }
ServiceListPath == << "services", ".txt" >>
OutputPath == << "report", ".txt" >>

ServiceNames == { << "s" >>, << "f" >> }
ConfigValues == { BoolTrue, BoolFalse }

\* The detector on its own is run over more names and every type of value.
DetectNames == { << "s" >>, << "f" >>, << "s", " " >> }
DetectValues == { BoolTrue, BoolFalse, StrTrue, StrYes, IntOne, NullValue, Nested }

\* Insertion-ordered mappings with distinct keys.
Mappings(names, values) ==
    { m \in SeqsUpTo([key : names, value : values], MaxKeys) :
        \A i, j \in DOMAIN m : i # j => m[i].key # m[j].key }

Documents(names, values) ==
    { [kind |-> "dict", items |-> m] : m \in Mappings(names, values) }
        \cup { [kind |-> "list", items |-> << >>] }

FileStates(names, values) ==
    { [status |-> st, data |-> NoData] :
        st \in {"missing", "open_error", "read_error", "parse_error"} }
        \cup { [status |-> "ok", data |-> d] : d \in Documents(names, values) }

ServiceLines == { << "s", "\n" >>, << " ", "x", " ", "\n" >>, << "\n" >> }
ServiceSources ==
    { [status |-> st, lines |-> << >>] : st \in {"missing", "unreadable"} }
        \cup { [status |-> "ok", lines |-> ls] : ls \in SeqsUpTo(ServiceLines, MaxLines) }

CommandLines ==
    [ config_files : SeqsUpTo(ConfigPaths, MaxFiles),
      service_list : { None, Some(<< >>), Some(ServiceListPath) },
      format : { "text", "json" },
      output : { None, Some(OutputPath) } ]

\* -------------------------------------------------------------------- state
VARIABLES
    pc,                     \* where main() is
    args,                   \* the command line
    active_services,        \* main.py:134
    service_source,         \* what load_active_services read, if called
    all_inactive_services,  \* main.py:141
    idx,                    \* config files analyzed so far
    last,                   \* the latest analyze_config_file call
    perFile,                \* per call, in call order: the list it returned
                            \* and whether it logged an error or a warning
    enabled_seen,           \* some analyzed mapping held a boolean true
    output_data,            \* main.py:146-157
    stdout,                 \* what print() wrote
    outfile,                \* what was written to args.output
    write_error,            \* the write to args.output raised
    printed,                \* argparse usage / help printed
    exit_code

vars == << pc, args, active_services, service_source, all_inactive_services, idx,
           last, perFile, enabled_seen, output_data, stdout, outfile, write_error,
           printed, exit_code >>

HoldsBooleanTrue(file) ==
    /\ file.status = "ok"
    /\ \E i \in DOMAIN file.data.items : file.data.items[i].value = BoolTrue

Init ==
    /\ pc = "start"
    /\ args \in CommandLines
    /\ active_services = None
    /\ service_source = None
    /\ all_inactive_services = << >>
    /\ idx = 0
    /\ last = None
    /\ perFile = << >>
    /\ enabled_seen = FALSE
    /\ output_data = None
    /\ stdout = None
    /\ outfile = None
    /\ write_error = FALSE
    /\ printed = "none"
    /\ exit_code = None

\* main.py:122-132
ParseArgs ==
    /\ pc = "start"
    /\ LET o == ParseOutcome(args)
       IN /\ pc' = o.pc
          /\ exit_code' = o.exit_code
          /\ printed' = o.printed
    /\ UNCHANGED << args, active_services, service_source, all_inactive_services,
                    idx, last, perFile, enabled_seen, output_data, stdout, outfile,
                    write_error >>

\* main.py:134-139
LoadActiveServices ==
    /\ pc = "load"
    /\ IF OptTruthy(args.service_list)
       THEN \E source \in ServiceSources :
              LET loaded == load_active_services(source)
              IN /\ service_source' = Some(source)
                 /\ active_services' = loaded
                 /\ IF LoadFailed(loaded, args.service_list)
                    THEN pc' = "exited" /\ exit_code' = Some(1)
                    ELSE pc' = "analyze" /\ exit_code' = exit_code
       ELSE /\ active_services' = None
            /\ pc' = "analyze"
            /\ UNCHANGED << service_source, exit_code >>
    /\ UNCHANGED << args, all_inactive_services, idx, last, perFile, enabled_seen,
                    output_data, stdout, outfile, write_error, printed >>

\* One call of analyze_config_file from the loop, main.py:142-143.  An
\* exception leaving the call would end the process with a traceback, status 1.
AnalyzeCall(config_file, file) ==
    LET result == analyze_config_file(config_file, active_services, file)
    IN /\ last' = Some([config_file |-> config_file, file |-> file, result |-> result])
       /\ enabled_seen' = (enabled_seen \/ HoldsBooleanTrue(file))
       /\ IF result.raised
          THEN /\ pc' = "exited"
               /\ exit_code' = Some(1)
               /\ UNCHANGED << perFile, all_inactive_services >>
          ELSE /\ perFile' = Append(perFile, [findings |-> result.findings,
                                              failed |-> result.log # "none"])
               /\ all_inactive_services' =
                      Extend(all_inactive_services, result.findings)
               /\ UNCHANGED << pc, exit_code >>

\* main.py:142-143: one iteration of the loop over args.config_files.
AnalyzeFile ==
    /\ pc = "analyze"
    /\ idx < Len(args.config_files)
    /\ \E file \in FileStates(ServiceNames, ConfigValues) :
         AnalyzeCall(args.config_files[idx + 1], file)
    /\ idx' = idx + 1
    /\ UNCHANGED << args, active_services, service_source, output_data, stdout,
                    outfile, write_error, printed >>

\* main.py:145-157, after the loop has ended.
FormatResults ==
    /\ pc = "analyze"
    /\ idx = Len(args.config_files)
    /\ output_data' = Some(FormatOutput(args.format, all_inactive_services))
    /\ last' = None
    /\ pc' = "emit"
    /\ UNCHANGED << args, active_services, service_source, all_inactive_services,
                    idx, perFile, enabled_seen, stdout, outfile, write_error,
                    printed, exit_code >>

\* main.py:159-173
EmitAndExit ==
    /\ pc = "emit"
    /\ IF OptTruthy(args.output)
       THEN \E written \in BOOLEAN :
              /\ write_error' = ~written
              /\ outfile' = IF written THEN output_data ELSE None
              /\ exit_code' = IF written
                              THEN Some(FinalExitCode(all_inactive_services))
                              ELSE Some(1)
              /\ stdout' = stdout
       ELSE /\ stdout' = output_data
            /\ exit_code' = Some(FinalExitCode(all_inactive_services))
            /\ UNCHANGED << outfile, write_error >>
    /\ pc' = "exited"
    /\ UNCHANGED << args, active_services, service_source, all_inactive_services,
                    idx, last, perFile, enabled_seen, output_data, printed >>

Next ==
    \/ ParseArgs
    \/ LoadActiveServices
    \/ AnalyzeFile
    \/ FormatResults
    \/ EmitAndExit

Spec == Init /\ [][Next]_vars

\* ----------------------------------------------- the detector on its own
\* analyze_config_file called directly, as its signature allows: any active
\* set (None, empty or not), any readable mapping, values of every type.
DetectActiveSets == { None } \cup { Some(S) : S \in SUBSET DetectNames }

DetectInit ==
    /\ pc = "analyze"
    /\ args = [ config_files |-> << << "a", ".yaml" >> >>, service_list |-> None,
                format |-> "text", output |-> None ]
    /\ active_services \in DetectActiveSets
    /\ service_source = None
    /\ all_inactive_services = << >>
    /\ idx = 0
    /\ last = None
    /\ perFile = << >>
    /\ enabled_seen = FALSE
    /\ output_data = None
    /\ stdout = None
    /\ outfile = None
    /\ write_error = FALSE
    /\ printed = "none"
    /\ exit_code = None

DetectFile ==
    /\ pc = "analyze"
    /\ idx < Len(args.config_files)
    /\ \E file \in FileStates(DetectNames, DetectValues) :
         AnalyzeCall(args.config_files[idx + 1], file)
    /\ idx' = idx + 1
    /\ UNCHANGED << args, active_services, service_source, output_data, stdout,
                    outfile, write_error, printed >>

DetectNext == DetectFile

DetectSpec == DetectInit /\ [][DetectNext]_vars

\* ------------------------------------------------------------ properties
\* The service names of a list of findings, in order.
HasFinding(found, n) == \E i \in DOMAIN found : found[i].service = n

\* The latest call read a document whose top level is a mapping.
ReadMapping == /\ last # None
               /\ last[1].file.status = "ok"
               /\ last[1].file.data.kind = "dict"

RECURSIVE Flatten(_)
Flatten(calls) ==
    IF calls = << >> THEN << >>
    ELSE Head(calls).findings \o Flatten(Tail(calls))

\* The run went through every config file and formatted the result.
Formatted == output_data # None

\* What the run emitted, wherever it went.
Emitted == IF stdout # None THEN stdout ELSE outfile

\* C1: analyze_config_file reports name n if and only if the mapping holds
\* the boolean true for n, the active set is not None and n is not in it;
\* each report names the file analyzed and carries the fixed reason.
C1_FindingIffEnabledAndInactive ==
    ReadMapping =>
        LET items == last[1].file.data.items
            found == last[1].result.findings
        IN /\ \A n \in DetectNames :
                HasFinding(found, n)
                  <=> /\ \E i \in DOMAIN items :
                            items[i].key = n /\ items[i].value = BoolTrue
                      /\ active_services # None
                      /\ n \notin active_services[1]
           /\ \A i \in DOMAIN found :
                /\ found[i].file = last[1].config_file
                /\ found[i].reason = REASON

\* C1 witness: one call that reports an enabled inactive service and passes
\* over a truthy non-boolean value of another inactive service.
C1_Witness ==
    /\ ReadMapping
    /\ active_services # None
    /\ last[1].result.findings # << >>
    /\ \E i \in DOMAIN last[1].file.data.items :
         LET it == last[1].file.data.items[i]
         IN /\ it.value \in {StrTrue, StrYes, IntOne, Nested}
            /\ it.key \notin active_services[1]
            /\ ~HasFinding(last[1].result.findings, it.key)

C3_LoadFailureAbortsFirst ==
    (service_source # None /\ active_services = None) =>
        /\ pc = "exited"
        /\ exit_code = Some(1)
        /\ idx = 0
        /\ last = None
        /\ perFile = << >>
        /\ all_inactive_services = << >>
        /\ output_data = None
        /\ stdout = None
        /\ outfile = None

\* C3 witness: a readable service list without a usable line ended the run.
C3_Witness ==
    /\ service_source # None
    /\ service_source[1].status = "ok"
    /\ service_source[1].lines # << >>
    /\ active_services = None
    /\ args.config_files # << >>
    /\ pc = "exited"

\* C4 as stated: after the analysis the exit code is 0 with no findings and
\* 1 with findings, whatever --format and --output are.
C4_Original ==
    (pc = "exited" /\ Formatted)
        => exit_code = Some(IF all_inactive_services = << >> THEN 0 ELSE 1)

\* C4 amended: after the analysis the exit code is 1 when there are findings
\* or the write to --output failed, and 0 otherwise, whatever --format is.
C4_ExitCode ==
    (pc = "exited" /\ Formatted)
        => exit_code =
             Some(IF all_inactive_services # << >> \/ write_error THEN 1 ELSE 0)

\* C4 witness: a run that wrote findings as json to --output and exited 1.
C4_Witness ==
    /\ pc = "exited"
    /\ Formatted
    /\ all_inactive_services # << >>
    /\ args.format = "json"
    /\ outfile # None
    /\ exit_code = Some(1)

\* The call met a per-file error: the file is missing or unreadable, it
\* does not parse, or its extension has no parser.
IsPerFileError(call) ==
    \/ call.file.status # "ok"
    \/ ~SupportedExt(FileExt(call.config_file))

\* C5: a call that meets a per-file error returns no finding and logs it;
\* after every call the loop goes on, the call's list is the tail of the
\* aggregate, and formatting starts only when every file was analyzed.
C5_PerFileErrorsContained ==
    /\ last # None =>
         /\ pc = "analyze"
         /\ exit_code = None
         /\ Len(perFile) = idx
         /\ perFile[idx].findings = last[1].result.findings
         /\ IsPerFileError(last[1]) =>
              (perFile[idx].findings = << >> /\ perFile[idx].failed)
    /\ all_inactive_services = Flatten(perFile)
    /\ Formatted => Len(perFile) = Len(args.config_files)

\* C5 witness: a finished run whose first file failed and whose second
\* file's findings are in the aggregate.
C5_Witness ==
    /\ pc = "exited"
    /\ Formatted
    /\ Len(perFile) = 2
    /\ perFile[1].failed
    /\ perFile[2].findings # << >>
    /\ all_inactive_services = perFile[2].findings

\* The findings follow the order of the mapping's keys.
InKeyOrder(found, items) ==
    \A j, k \in DOMAIN found :
        j < k => \E p, q \in DOMAIN items :
                    /\ p < q
                    /\ items[p].key = found[j].service
                    /\ items[q].key = found[k].service

\* C6: the aggregate is the concatenation of the per-file lists in command
\* line order, each list names its own file and follows the insertion order
\* of the mapping's keys, and the json output lists the findings in the
\* aggregate's order.
C6_FileThenKeyOrder ==
    /\ Len(perFile) = idx
    /\ all_inactive_services = Flatten(perFile)
    /\ \A i \in DOMAIN perFile : \A j \in DOMAIN perFile[i].findings :
         perFile[i].findings[j].file = args.config_files[i]
    /\ ReadMapping => InKeyOrder(last[1].result.findings, last[1].file.data.items)
    /\ (Formatted /\ args.format = "json" /\ all_inactive_services # << >>) =>
         /\ Len(output_data[1]) = 2 + 5 * Len(all_inactive_services)
         /\ \A i \in DOMAIN all_inactive_services :
              /\ output_data[1][5 * (i - 1) + 3]
                   = << "\"file\": " >> \o all_inactive_services[i].file
              /\ output_data[1][5 * (i - 1) + 4]
                   = << "\"service\": " >> \o all_inactive_services[i].service

\* C6 witness: two different files, the first with two findings and the
\* second with one, written as json.
C6_Witness ==
    /\ pc = "exited"
    /\ args.format = "json"
    /\ Emitted # None
    /\ Len(perFile) = 2
    /\ args.config_files[1] # args.config_files[2]
    /\ Len(perFile[1].findings) = 2
    /\ Len(perFile[2].findings) = 1

\* C7 as stated (the --service-list help text): without --service-list
\* every service enabled in an analyzed file is reported.
C7_HelpText ==
    (ReadMapping /\ args.service_list = None) =>
        \A i \in DOMAIN last[1].file.data.items :
            last[1].file.data.items[i].value = BoolTrue
                => HasFinding(last[1].result.findings, last[1].file.data.items[i].key)

\* C8 as stated: a command line without config files ends with exit code 1
\* after the help was printed, and nothing was analyzed.
C8_NoFilesExitOne ==
    (pc = "exited" /\ args.config_files = << >>) =>
        /\ exit_code = Some(1)
        /\ printed = "help"
        /\ idx = 0

\* The lines are what the format prescribes for the findings.
Conforms(lines, format, findings) ==
    IF findings = << >>
    THEN lines = IF format = "json" THEN << << "[]" >> >> ELSE << << NO_FINDINGS >> >>
    ELSE IF format = "json"
    THEN /\ Len(lines) = 2 + 5 * Len(findings)
         /\ \A i \in DOMAIN findings :
              /\ lines[5 * (i - 1) + 3] = << "\"file\": " >> \o findings[i].file
              /\ lines[5 * (i - 1) + 4] = << "\"service\": " >> \o findings[i].service
              /\ lines[5 * (i - 1) + 5] = << "\"reason\": ", REASON >>
    ELSE /\ Len(lines) = 1 + 4 * Len(findings)
         /\ \A i \in DOMAIN findings :
              /\ lines[4 * (i - 1) + 2] = << "  File: " >> \o findings[i].file
              /\ lines[4 * (i - 1) + 3] = << "  Service: " >> \o findings[i].service
              /\ lines[4 * (i - 1) + 4] = << "  Reason: ", REASON >>

\* C9 as stated: a run that reached formatting has emitted, when it ends,
\* the output its format prescribes.
C9_Original ==
    (pc = "exited" /\ Formatted) =>
        /\ Emitted # None
        /\ Conforms(Emitted[1], args.format, all_inactive_services)

\* C9 amended: a run that reached formatting has emitted, when it ends, the
\* output its format prescribes, to the --output file when one is named and
\* to stdout otherwise, unless the write to the --output file failed.
C9_OutputEmitted ==
    (pc = "exited" /\ Formatted /\ ~write_error) =>
        /\ Emitted # None
        /\ Conforms(Emitted[1], args.format, all_inactive_services)
        /\ (stdout # None) <=> ~OptTruthy(args.output)
        /\ (outfile # None) <=> OptTruthy(args.output)

\* C9 witness: a run without findings wrote the fixed sentence in text mode.
C9_Witness ==
    /\ pc = "exited"
    /\ args.format = "text"
    /\ all_inactive_services = << >>
    /\ Len(perFile) = 2
    /\ outfile = Some(<< << NO_FINDINGS >> >>)

\* C10 as stated: while config files are analyzed the active set is None or
\* a non-empty set of stripped, non-blank lines of the service list, and it
\* is None exactly when no --service-list was given.
C10_ActiveSetShape ==
    pc = "analyze" =>
        /\ active_services # None =>
             /\ active_services[1] # {}
             /\ service_source # None
             /\ \A e \in active_services[1] :
                  /\ StrTruthy(e)
                  /\ Strip(e) = e
                  /\ \E l \in Range(service_source[1].lines) : Strip(l) = e
        /\ (active_services = None) <=> (args.service_list = None)

====
